---- MODULE Spec2Model ----
(***************************************************************************)
(* The solar EDA toolkit.                                                  *)
(*   scripts/data_prep_clean.py      class DatasetHandler                  *)
(*   scripts/data_preparation.py     the module-level functions            *)
(*   scripts/file_loading_handler.py class FileLoadingHandler              *)
(*   scripts/eda_plots.py            load_cleaned_data                     *)
(*   scripts/compare_countries.py    class ComparisonHandler               *)
(*   app/main.py, app/utils.py       the dashboard                         *)
(* A table (pandas DataFrame) is a sequence of rows; a cell is a number or *)
(* NaN.  Numbers are fixed-point: the integer k stands for k/64, so that   *)
(* the halving done by a median of an even count stays exact (the tables   *)
(* of Init hold whole numbers: 0, 64 = 1.0 and 256 = 4.0).  The z-score    *)
(* test and the median do not depend on the unit.                          *)
(* The variables fresh, cleans and passes record the caller's position:    *)
(* no operation reads them to compute the table.                           *)
(* Four specifications share the variables: Spec (the outlier-and-impute   *)
(* pipeline on a loaded table), SpecIO (loading, the handler without a     *)
(* table, saving), SpecCompare (ComparisonHandler) and SpecDash (the       *)
(* dashboard script).  Each leaves the variables of the others alone.      *)
(***************************************************************************)
EXTENDS Integers, Sequences, FiniteSets

VARIABLES
    df,              \* the table: a sequence of rows, each a record of cells
    columns,         \* df.columns: the names of the columns present
    impute_columns,  \* the argument the caller passes to clean_and_impute
    fresh,           \* Outliers_Flag was computed from the current values
    cleans,          \* number of clean_and_impute calls made so far
    passes,          \* consecutive flag-then-clean passes that produced the values
    df_is_None,      \* "df is None": no table is held (df is then <<>>)
    dtypes,          \* df.dtypes of a table read from a file: name and dtype of
                     \* every column, in the order of df.columns
    caller,          \* the interface the calling script uses: the class or the functions
    file_path,       \* FileLoadingHandler.file_path, or the path the script loads
    fs,              \* the file system: directories and files
    ret,             \* the last call and how it ended
    FILE_PATHS,      \* ComparisonHandler.FILE_PATHS, in dict order
    df_combined,     \* ComparisonHandler.df_combined
    performed,       \* the library calls the last ComparisonHandler call made
    uploaded_files,  \* st.sidebar.file_uploader(...): the uploads, in order
    selected_names,  \* st.sidebar.multiselect(...): the names selected
    metric,          \* st.sidebar.selectbox(...): the metric selected
    shown            \* what the last run of the dashboard script showed

\* the state of the outlier-and-impute pipeline
pipeline_vars == <<df, columns, impute_columns, fresh, cleans, passes>>

\* the handler's binding, the file system and the outcome of the last call
io_vars == <<df_is_None, dtypes, caller, file_path, fs, ret>>

\* the state of ComparisonHandler
compare_vars == <<FILE_PATHS, df_combined, performed>>

\* the state of the dashboard script
dash_vars == <<uploaded_files, selected_names, metric, shown>>

vars == <<pipeline_vars, io_vars, compare_vars, dash_vars>>

----------------------------------------------------------------------------
(* Bounds of the model *)

BulkRows == 9
MaxFree == 3
MaxPreset == 3
MaxCleans == 2
MaxCountries == 3
MaxUploads == 3

----------------------------------------------------------------------------
(* Values *)

\* numpy.nan, the missing cell; every number of the model is >= 0
NaN == -1

\* the |Z| > 3 threshold
Threshold == 3

\* the candidate columns of the z-score, in the order of the source
numeric_cols == <<"GHI", "DNI", "DHI", "ModA", "ModB", "WS", "WSgust">>

FlagColumn == "Outliers_Flag"

Range(s) == {s[i] : i \in 1..Len(s)}

Rows(d) == 1..Len(d)

----------------------------------------------------------------------------
(* pandas reductions over one column, restricted to the rows in idx *)

\* mutant: the statistics leave out the rows that are flagged already
NotNaUnflagged(d, c, idx) ==
    {i \in idx : d[i][c] # NaN /\ ~d[i].Outliers_Flag}

\* the rows of idx whose cell of column c is not missing
NotNa(d, c, idx) == {i \in idx : d[i][c] # NaN}

\* the sum of the cells of column c over the rows of idx among 1..k
RECURSIVE SumOver(_, _, _, _)
SumOver(d, c, idx, k) ==
    IF k = 0 THEN 0
    ELSE SumOver(d, c, idx, k - 1) + (IF k \in idx THEN d[k][c] ELSE 0)

\* the sum of their squares
RECURSIVE SumSqOver(_, _, _, _)
SumSqOver(d, c, idx, k) ==
    IF k = 0 THEN 0
    ELSE SumSqOver(d, c, idx, k - 1) + (IF k \in idx THEN d[k][c] * d[k][c] ELSE 0)

\* Series.mean(): skips NaN; the rational sum/n, NaN for an empty column
mean(d, c) ==
    LET idx == NotNa(d, c, Rows(d))
    IN [nan |-> idx = {}, sum |-> SumOver(d, c, idx, Len(d)),
        n |-> Cardinality(idx)]

\* Series.std(ddof) : skips NaN; the variance is ss / (n * dof) with
\* ss = n * sum(x^2) - sum(x)^2 and dof = n - ddof; NaN when dof <= 0
StdDdof(d, c, ddof) ==
    LET idx == NotNa(d, c, Rows(d))
        n   == Cardinality(idx)
        s   == SumOver(d, c, idx, Len(d))
    IN [nan |-> n - ddof <= 0, n |-> n, dof |-> n - ddof,
        ss |-> n * SumSqOver(d, c, idx, Len(d)) - s * s]

\* mutant: the population standard deviation, ddof = 0
StdPopulation(d, c) == StdDdof(d, c, 0)

\* Series.std(): pandas' default is the sample standard deviation, ddof = 1
std(d, c) == StdDdof(d, c, 1)

\* the k-th smallest (k = 1 ..) cell of column c among the rows idx
Kth(d, c, idx, k) ==
    LET i == CHOOSE j \in idx :
                 /\ Cardinality({h \in idx : d[h][c] < d[j][c]}) < k
                 /\ k <= Cardinality({h \in idx : d[h][c] <= d[j][c]})
    IN d[i][c]

\* mutant: the lower of the two middle cells, never their mean
medianLow(d, c, rows) ==
    LET idx == NotNa(d, c, rows)
        n   == Cardinality(idx)
    IN IF n = 0 THEN NaN ELSE Kth(d, c, idx, (n + 1) \div 2)

\* Series.median(skipna=True) of column c over the rows idx: NaN when no
\* cell is left, the middle cell or the mean of the two middle cells
median(d, c, rows) ==
    LET idx == NotNa(d, c, rows)
        n   == Cardinality(idx)
    IN IF n = 0 THEN NaN
       ELSE IF n % 2 = 1 THEN Kth(d, c, idx, (n + 1) \div 2)
       ELSE (Kth(d, c, idx, n \div 2) + Kth(d, c, idx, n \div 2 + 1)) \div 2

----------------------------------------------------------------------------
(* z-scores.  A z-score is kept exact: its sign, and its square num/den.   *)
(* With dev = n * (value - mean):  z^2 = dev^2 * dof / (n * ss).           *)

Sign(x) == IF x > 0 THEN 1 ELSE IF x < 0 THEN -1 ELSE 0

NaNScore == [nan |-> TRUE, sign |-> 0, num |-> 0, den |-> 1]

\* (value - mean) / std, with numpy's rules: NaN in gives NaN out, 0/0 is
\* NaN, x/0 is +-inf (den = 0, num > 0)
ZScore(v, m, s) ==
    IF v = NaN \/ m.nan \/ s.nan THEN NaNScore
    ELSE LET dev == m.n * v - m.sum
         IN IF s.ss = 0 /\ dev = 0 THEN NaNScore
            ELSE [nan |-> FALSE, sign |-> Sign(dev),
                  num |-> dev * dev * s.dof, den |-> s.n * s.ss]

\* DataFrame.abs()
abs(z) == [z EXCEPT !.sign = IF z.sign < 0 THEN 1 ELSE z.sign]

\* mutant: "not (z <= t)", which a NaN satisfies
gtNotLe(z, t) == z.nan \/ (z.sign > 0 /\ z.num > t * t * z.den)

\* DataFrame.gt(t) for t >= 0: a comparison with NaN is False
gt(z, t) == ~z.nan /\ z.sign > 0 /\ z.num > t * t * z.den

\* mutant: every data column of the table is scored
AllDataColumns(cols) == cols \ {FlagColumn}

\* the candidate columns that exist in the table
cols_for_zscore(cols) == {c \in Range(numeric_cols) : c \in cols}

\* mutant: a value counts as an outlier from 2 standard deviations on
ZscoreAbsGt2(d, c) ==
    LET m == mean(d, c)
        s == std(d, c)
    IN {i \in Rows(d) : gt(abs(ZScore(d[i][c], m, s)), 2)}

\* one column of zscores.abs().gt(3): the rows where it is True
ZscoreAbsGt3(d, c) ==
    LET m == mean(d, c)
        s == std(d, c)
    IN {i \in Rows(d) : gt(abs(ZScore(d[i][c], m, s)), Threshold)}

\* zscores.abs().gt(3).any(axis=1): the flag of every row
OutlierFlags(d, cols) ==
    LET any == UNION {ZscoreAbsGt3(d, c) : c \in cols}
    IN [i \in Rows(d) |-> i \in any]

\* df['Outliers_Flag'] = flags
SetFlag(d, flags) ==
    [i \in Rows(d) |-> [d[i] EXCEPT !.Outliers_Flag = flags[i]]]

----------------------------------------------------------------------------
(* clean_and_impute *)

\* the rows where Outliers_Flag is True
outlier_mask(d) == {i \in Rows(d) : d[i].Outliers_Flag}

\* mutant: the value is written into every row of the column
AssignAll(d, col, rows, value) ==
    [i \in Rows(d) |-> [d[i] EXCEPT ![col] = value]]

\* df.loc[rows, col] = value
Assign(d, col, rows, value) ==
    [i \in Rows(d) |-> IF i \in rows THEN [d[i] EXCEPT ![col] = value] ELSE d[i]]

\* mutant: the mask is inverted, the rows that are not flagged are overwritten
ReplaceNonOutliers(d, col) ==
    LET mask == outlier_mask(d)
        median_val == median(d, col, Rows(d) \ mask)
    IN Assign(d, col, Rows(d) \ mask, median_val)

\* step 1 of DatasetHandler.clean_and_impute, for one column: the median of
\* the rows that are not flagged goes into every flagged row
DH_ReplaceOutliers(d, col) ==
    LET mask == outlier_mask(d)
        median_val == median(d, col, Rows(d) \ mask)
    IN Assign(d, col, mask, median_val)

\* step 5a of data_preparation.clean_and_impute, for one column: the median
\* of the whole column goes into every flagged row
ReplaceOutliers(d, col) ==
    LET median_val == median(d, col, Rows(d))
    IN Assign(d, col, outlier_mask(d), median_val)

\* mutant: fillna(..., limit=1), only the first missing cell is filled
FillNaLimit1(d, col) ==
    LET median_val == median(d, col, Rows(d))
        first == {i \in Rows(d) :
                    d[i][col] = NaN /\ \A j \in 1..(i - 1) : d[j][col] # NaN}
    IN Assign(d, col, first, median_val)

\* step 2, for one column:
\* df[col].fillna(df[col].median(skipna=True), inplace=True)
\* (the in-place fill of the column writes through to df, as it does in
\* pandas without copy-on-write; a NaN median fills with NaN)
FillNa(d, col) ==
    LET median_val == median(d, col, Rows(d))
    IN Assign(d, col, {i \in Rows(d) : d[i][col] = NaN}, median_val)

\* the guard of step 1
HasOutliers(d, cols) == FlagColumn \in cols /\ outlier_mask(d) # {}

\* for col in impute_columns: if col in df.columns: (step 1, DatasetHandler)
RECURSIVE DH_Step1(_, _, _, _)
DH_Step1(d, cols, impute, k) ==
    IF k > Len(impute) THEN d
    ELSE DH_Step1(IF impute[k] \in cols THEN DH_ReplaceOutliers(d, impute[k]) ELSE d,
                  cols, impute, k + 1)

\* for col in impute_columns: if col in df.columns: (step 5a, data_preparation)
RECURSIVE Step1(_, _, _, _)
Step1(d, cols, impute, k) ==
    IF k > Len(impute) THEN d
    ELSE Step1(IF impute[k] \in cols THEN ReplaceOutliers(d, impute[k]) ELSE d,
               cols, impute, k + 1)

\* for col in impute_columns: if col in df.columns: (step 2, both)
RECURSIVE Step2(_, _, _, _)
Step2(d, cols, impute, k) ==
    IF k > Len(impute) THEN d
    ELSE Step2(IF impute[k] \in cols THEN FillNa(d, impute[k]) ELSE d,
               cols, impute, k + 1)

DH_CleanResult(d, cols, impute) ==
    Step2(IF HasOutliers(d, cols) THEN DH_Step1(d, cols, impute, 1) ELSE d,
          cols, impute, 1)

CleanResult(d, cols, impute) ==
    Step2(IF HasOutliers(d, cols) THEN Step1(d, cols, impute, 1) ELSE d,
          cols, impute, 1)

----------------------------------------------------------------------------
(* Paths, the outcome of a call, and the state of the parts that a         *)
(* specification does not exercise                                         *)

\* a path: os.path.dirname(path) is dir, "" for a bare file name
Path(dir, name) == [dir |-> dir, name |-> name]

NoPath == Path("", "")

\* ret: the operation called last, how the call ended ("None", "df", "True",
\* "False" for the value returned, "raised" for an exception that reached
\* the caller) and the path it was given, if any
Outcome(op, value, path) == [op |-> op, value |-> value, path |-> path]

NoCall == Outcome("", "", NoPath)

NoFs == [dirs |-> {}, readonly |-> {}, files |-> <<>>]

IOIdle ==
    dtypes = <<>> /\ caller = "" /\ file_path = NoPath /\ fs = NoFs /\ ret = NoCall

NoTable == [is_None |-> TRUE, columns |-> {}, rows |-> <<>>]

CompareIdle == FILE_PATHS = <<>> /\ df_combined = NoTable /\ performed = {}

DashIdle ==
    uploaded_files = <<>> /\ selected_names = <<>> /\ metric = "GHI" /\ shown = <<>>

PipelineIdle ==
    /\ df = <<>> /\ columns = {} /\ impute_columns = <<>>
    /\ fresh = FALSE /\ cleans = 0 /\ passes = 0

----------------------------------------------------------------------------
(* The tables the model starts from.  Row order plays no part in any of    *)
(* the reductions, so a table is a block of BulkRows equal rows (or none)  *)
(* followed by up to MaxFree rows drawn, in a fixed order, from RowTypes.  *)
(* A file may hold an Outliers_Flag column of its own, with any contents:  *)
(* such tables have up to MaxPreset rows.                                  *)

Row(g, w, t, f) == [GHI |-> g, WS |-> w, Tamb |-> t, Outliers_Flag |-> f]

RowTypes ==
    << Row(NaN, 0, 64, FALSE),   Row(0, 0, 64, FALSE),
       Row(64, 0, 64, FALSE),    Row(256, 0, 64, FALSE),
       Row(0, 256, 64, FALSE),   Row(256, 256, 0, FALSE),
       Row(0, 0, NaN, FALSE) >>

BulkTypes == {1, 2, 4}

Schemas == {{"GHI", "WS", "Tamb"}, {"GHI", "Tamb"}, {"GHI"}, {"Tamb"}}

ImputeChoices == {<<"GHI">>, <<"GHI", "WS", "Tamb">>}

\* sequences of row types of length n, in nondecreasing order
Sorted(n) ==
    {s \in [1..n -> 1..Len(RowTypes)] :
        \A i \in 1..n : \A j \in 1..n : i < j => s[i] <= s[j]}

Repeat(r, n) == [i \in 1..n |-> r]

\* a row as the file holds it: a column that is absent has no cell
Project(r, cols) ==
    [c \in DOMAIN r |->
        IF c \in cols THEN r[c] ELSE IF c = FlagColumn THEN FALSE ELSE NaN]

TableOf(types, flags, cols) ==
    [i \in 1..Len(types) |->
        Project([RowTypes[types[i]] EXCEPT !.Outliers_Flag = flags[i]], cols)]

Init ==
    /\ \E schema \in Schemas : \E n \in 0..MaxFree : \E free \in Sorted(n) :
         \/ \E b \in BulkTypes :
              /\ columns = schema
              /\ df = TableOf(Repeat(b, BulkRows) \o free,
                              Repeat(FALSE, BulkRows + n), schema)
         \/ \E flags \in [1..n -> BOOLEAN] :
              /\ n <= MaxPreset
              /\ columns = schema \cup {FlagColumn}
              /\ df = TableOf(free, flags, columns)
         \/ /\ columns = schema
            /\ df = TableOf(free, Repeat(FALSE, n), schema)
    /\ impute_columns \in ImputeChoices
    /\ fresh = FALSE
    /\ cleans = 0
    /\ passes = 0
    /\ df_is_None = FALSE
    /\ IOIdle
    /\ CompareIdle
    /\ DashIdle

----------------------------------------------------------------------------
(* Operations *)

\* DatasetHandler.calculate_zscore_and_flag_outliers
DH_calculate_zscore_and_flag_outliers ==
    /\ df' = SetFlag(df, OutlierFlags(df, cols_for_zscore(columns)))
    /\ columns' = columns \cup {FlagColumn}
    /\ fresh' = TRUE
    /\ UNCHANGED <<impute_columns, cleans, passes>>

\* data_preparation.calculate_zscore_and_flag_outliers
calculate_zscore_and_flag_outliers ==
    /\ LET cols == cols_for_zscore(columns)
       IN IF cols = {} \/ Len(df) = 0
          THEN df' = SetFlag(df, [i \in Rows(df) |-> FALSE])
          ELSE df' = SetFlag(df, OutlierFlags(df, cols))
    /\ columns' = columns \cup {FlagColumn}
    /\ fresh' = TRUE
    /\ UNCHANGED <<impute_columns, cleans, passes>>

\* DatasetHandler.clean_and_impute(impute_columns)
DH_clean_and_impute ==
    /\ cleans < MaxCleans
    /\ df' = DH_CleanResult(df, columns, impute_columns)
    /\ cleans' = cleans + 1
    /\ passes' = IF fresh THEN passes + 1 ELSE 0
    /\ fresh' = FALSE
    /\ UNCHANGED <<columns, impute_columns>>

\* data_preparation.clean_and_impute(df, impute_columns)
clean_and_impute ==
    /\ cleans < MaxCleans
    /\ df' = CleanResult(df, columns, impute_columns)
    /\ cleans' = cleans + 1
    /\ passes' = IF fresh THEN passes + 1 ELSE 0
    /\ fresh' = FALSE
    /\ UNCHANGED <<columns, impute_columns>>

other_vars == <<io_vars, compare_vars, dash_vars>>

Next ==
    \/ DH_calculate_zscore_and_flag_outliers /\ UNCHANGED other_vars
    \/ calculate_zscore_and_flag_outliers /\ UNCHANGED other_vars
    \/ DH_clean_and_impute /\ UNCHANGED other_vars
    \/ clean_and_impute /\ UNCHANGED other_vars

Spec == Init /\ [][Next]_vars

----------------------------------------------------------------------------
(* What the specification says of flag_outliers, stated on its own terms   *)

Candidates == {"GHI", "DNI", "DHI", "ModA", "ModB", "WS", "WSgust"}

PresentCandidates == Candidates \cap columns

RECURSIVE Total(_, _, _)
Total(d, c, k) ==
    IF k = 0 THEN 0
    ELSE Total(d, c, k - 1) + (IF d[k][c] = NaN THEN 0 ELSE d[k][c])

RECURSIVE TotalSq(_, _, _)
TotalSq(d, c, k) ==
    IF k = 0 THEN 0
    ELSE TotalSq(d, c, k - 1) + (IF d[k][c] = NaN THEN 0 ELSE d[k][c] * d[k][c])

Count(d, c) == Cardinality({i \in Rows(d) : d[i][c] # NaN})

\* the statistics of column c of table d: the number n of its non-missing
\* cells, their sum S and their sum of squares Q
Stats(d, c) ==
    [n |-> Count(d, c), S |-> Total(d, c, Len(d)), Q |-> TotalSq(d, c, Len(d))]

\* |v - mean| > 3 * std for the mean and the sample standard deviation
\* (n - 1 denominator) of a column of statistics st:
\* (n*v - S)^2 * (n - 1) > 9 * n * (n*Q - S^2); false when undefined
Beyond(st, v) ==
    /\ v # NaN
    /\ st.n >= 2
    /\ (st.n * v - st.S) * (st.n * v - st.S) * (st.n - 1)
           > 9 * st.n * (st.n * st.Q - st.S * st.S)

\* the rows of d whose cell of column c is beyond 3 standard deviations
BeyondIn(d, c) ==
    LET st == Stats(d, c)
    IN {i \in Rows(d) : Beyond(st, d[i][c])}

\* the rows that some candidate column present puts beyond 3 std
BeyondRows(d) == UNION {BeyondIn(d, c) : c \in PresentCandidates}

Flagged(d) == {i \in Rows(d) : d[i].Outliers_Flag}

\* C1: after flag_outliers a row's Outliers_Flag is true exactly when some
\* candidate column present in the table holds, in that row, a value more
\* than 3 sample standard deviations from the column's mean; a missing cell
\* or an undefined z-score never sets it.
C1_FlagIffSomeColumnBeyond3Std ==
    fresh => Flagged(df) = BeyondRows(df)

\* witness of C1: a flagged table in which one row is flagged by GHI alone,
\* another by WS alone, and a third row is not flagged
C1_Witness ==
    /\ fresh
    /\ Flagged(df) \cap (BeyondIn(df, "GHI") \ BeyondIn(df, "WS")) # {}
    /\ Flagged(df) \cap (BeyondIn(df, "WS") \ BeyondIn(df, "GHI")) # {}
    /\ Flagged(df) # Rows(df)

\* a column that cannot yield a z-score: fewer than two cells, or all equal
Degenerate(d, c) ==
    \/ Count(d, c) < 2
    \/ \A i \in Rows(d) : \A j \in Rows(d) :
          d[i][c] # NaN /\ d[j][c] # NaN => d[i][c] = d[j][c]

\* C7: a candidate column that is constant, has no numeric data or a single
\* cell contributes no flag: every flagged row is flagged by a column that is
\* none of these, and the flags are those of the other columns alone.
C7_DegenerateColumnFlagsNothing ==
    fresh =>
        Flagged(df) =
            UNION {BeyondIn(df, c) :
                     c \in {x \in PresentCandidates : ~Degenerate(df, x)}}

\* witness of C7: WS is constant over at least 11 rows, GHI flags a row
C7_Witness ==
    /\ fresh
    /\ {"GHI", "WS"} \subseteq columns
    /\ Count(df, "WS") >= 11 /\ Degenerate(df, "WS")
    /\ Flagged(df) # {}

\* C8: flag_outliers flags a row only on account of a candidate column that
\* the table holds; with no candidate column in the table it flags no row.
C8_NoCandidateNoFlag ==
    fresh =>
        /\ Flagged(df) \subseteq UNION {BeyondIn(df, c) : c \in PresentCandidates}
        /\ PresentCandidates = {} => Flagged(df) = {}

\* witness of C8: a flagged table of at least 11 rows none of whose columns
\* is a candidate, although Tamb holds a value beyond 3 standard deviations
C8_Witness ==
    /\ fresh
    /\ PresentCandidates = {}
    /\ BeyondIn(df, "Tamb") # {}

FlagStep == fresh' /\ cleans' = cleans

\* C9: flag_outliers run again on the table it returned, which now carries
\* Outliers_Flag, returns the same table: the flags depend on the values of
\* the candidate columns alone.
C9_FlagAgainSameFlags ==
    [][(fresh /\ FlagStep) => df' = df /\ columns' = columns]_vars

\* witness of C9: a flagged table with a flagged and an unflagged row
C9_Witness ==
    /\ fresh
    /\ Flagged(df) # {}
    /\ Flagged(df) # Rows(df)

----------------------------------------------------------------------------
(* What the specification says of clean_and_impute, stated on its own terms *)

CleanStep == cleans' = cleans + 1

ProcessedColumns == {c \in columns : \E k \in 1..Len(impute_columns) : impute_columns[k] = c}

\* the non-missing cells of column c in the rows of the set rows, in row order
RECURSIVE Cells(_, _, _, _)
Cells(d, c, rows, k) ==
    IF k = 0 THEN <<>>
    ELSE LET rest == Cells(d, c, rows, k - 1)
         IN IF k \in rows /\ d[k][c] # NaN THEN Append(rest, d[k][c]) ELSE rest

CellsOf(d, c, rows) == Cells(d, c, rows, Len(d))

Without(s, i) == [k \in 1..(Len(s) - 1) |-> IF k < i THEN s[k] ELSE s[k + 1]]

RECURSIVE Ascending(_)
Ascending(s) ==
    IF s = <<>> THEN <<>>
    ELSE LET i == CHOOSE k \in 1..Len(s) : \A h \in 1..Len(s) : s[k] <= s[h]
         IN <<s[i]>> \o Ascending(Without(s, i))

\* twice the median of the values of s, a sequence that is not empty: the
\* sum of the two middle values (the middle one counted twice)
TwiceMedian(s) ==
    LET t == Ascending(s)
        n == Len(s)
    IN t[(n + 1) \div 2] + t[(n + 2) \div 2]

\* v is the median of the values of s: missing when s is empty
IsMedianOf(v, s) ==
    IF s = <<>> THEN v = NaN ELSE v # NaN /\ 2 * v = TwiceMedian(s)

\* C2 (as claimed): clean_and_impute leaves, in every processed column, every
\* cell of a flagged row equal to the median of the column over the rows that
\* are not flagged (taken where those rows hold a value, so that the median
\* exists).
C2_FlaggedCellsGetNonFlaggedMedian ==
    [][CleanStep =>
         \A c \in ProcessedColumns : \A i \in Flagged(df) :
             LET others == CellsOf(df, c, Rows(df) \ Flagged(df))
             IN others # <<>> => IsMedianOf(df'[i][c], others)]_vars

\* C3 (as claimed): after clean_and_impute no cell is missing in a processed
\* column that held at least one value, whatever the flags.
C3_NoMissingLeft ==
    [][CleanStep =>
         \A c \in ProcessedColumns :
             (\E i \in Rows(df) : df[i][c] # NaN) =>
                 \A i \in Rows(df) : df'[i][c] # NaN]_vars

\* C4 (as claimed): when every row is flagged, clean_and_impute leaves the
\* values of the processed columns as they were.
C4_AllFlaggedSkipsReplacement ==
    [][(CleanStep /\ Rows(df) # {} /\ Flagged(df) = Rows(df)) =>
         \A c \in ProcessedColumns : \A i \in Rows(df) :
             df[i][c] # NaN => df'[i][c] = df[i][c]]_vars

SecondPass == passes >= 1 /\ fresh /\ CleanStep

\* C5 (as claimed): a second flag-then-clean pass over the cleaned table
\* changes no cell.
C5_SecondPassChangesNothing ==
    [][SecondPass => df' = df]_vars

\* C5 (amended): a second flag-then-clean pass changes no cell of a row that
\* the recomputed flag leaves unflagged; it may change the rows it flags.
C5_SecondPassKeepsUnflaggedRows ==
    [][SecondPass => \A i \in Rows(df) \ Flagged(df) : df'[i] = df[i]]_vars

\* witness of C5: two passes done, the second over a table of at least 12
\* rows in which the recomputed flag marked some rows and not others
C5_Witness ==
    /\ passes = 2
    /\ ~fresh
    /\ Len(df) >= 12
    /\ Flagged(df) # {}
    /\ Flagged(df) # Rows(df)

\* flag_outliers then clean_and_impute over (at least) the candidate columns
PipelineStep ==
    /\ fresh
    /\ CleanStep
    /\ PresentCandidates \subseteq ProcessedColumns

\* C6 (as claimed): the rows with |z| > 3, recomputed on the cleaned table,
\* are no more than the rows flagged before cleaning.
C6_RecountNotAbove ==
    [][PipelineStep =>
         Cardinality(BeyondRows(df')) <= Cardinality(Flagged(df))]_vars

\* C6 (amended): measured with the mean and standard deviation the table had
\* when it was flagged, no cell of a candidate column is beyond 3 standard
\* deviations after cleaning (so that count is 0, and not above the number
\* of rows flagged); with the statistics recomputed the count can grow.
C6_NoneBeyondOriginal3Std ==
    [][PipelineStep =>
         \A c \in PresentCandidates :
             LET st == Stats(df, c)
             IN \A i \in Rows(df) : ~Beyond(st, df'[i][c])]_vars

\* witness of C6: a pass has cleaned the candidate columns of a table in
\* which a row was flagged, and the recount on the cleaned table flags a row
C6_Witness ==
    /\ passes >= 1
    /\ ~fresh
    /\ PresentCandidates # {}
    /\ PresentCandidates \subseteq ProcessedColumns
    /\ Flagged(df) # {}
    /\ BeyondRows(df) # {}

\* C10: with no row flagged, clean_and_impute fills every missing cell of a
\* processed column with the median of the column's values and changes no
\* other cell; in general a missing cell of an unflagged row gets the median
\* of the column as step 1 left it (the unflagged values and the values
\* written into the flagged rows).
C10_FillIsMedianAfterStep1 ==
    [][CleanStep =>
         \A c \in ProcessedColumns :
             LET unflagged == Rows(df) \ Flagged(df)
                 missing == {i \in unflagged : df[i][c] = NaN}
                 step1 == CellsOf(df, c, unflagged) \o CellsOf(df', c, Flagged(df))
             IN /\ Flagged(df) = {} =>
                     \A i \in unflagged \ missing : df'[i][c] = df[i][c]
                /\ missing # {} =>
                     \E v \in {df'[i][c] : i \in missing} :
                         /\ IsMedianOf(v, step1)
                         /\ \A i \in missing : df'[i][c] = v]_vars

\* witness of C10: one clean of a table without flagged rows has filled a
\* GHI cell with a median that no input cell holds (the mean of 0 and 64)
C10_Witness ==
    /\ cleans = 1
    /\ Flagged(df) = {}
    /\ "GHI" \in ProcessedColumns
    /\ \E i \in Rows(df) : df[i]["GHI"] = 32

----------------------------------------------------------------------------
(* CSV text.  The text of a field is a sequence of characters.  read_csv   *)
(* keeps the columns in the order of the header and infers a dtype for     *)
(* each: int64 when every field is a whole number, float64 when every      *)
(* field that is not empty is a number, bool, or object (strings; also a   *)
(* column without rows).  to_csv writes the columns in the order of        *)
(* df.columns, a float as its repr, an int without decimals, and a missing *)
(* cell as the empty field.  A number k/64 has an exact decimal expansion  *)
(* of at most six decimals, which is its repr.                             *)

Digits == <<"0", "1", "2", "3", "4", "5", "6", "7", "8", "9">>

IsDigit(ch) == \E k \in 1..10 : Digits[k] = ch

DigitValue(ch) == (CHOOSE k \in 1..10 : Digits[k] = ch) - 1

RECURSIVE Pow10(_)
Pow10(k) == IF k = 0 THEN 1 ELSE 10 * Pow10(k - 1)

\* str(n) for an integer n >= 0
RECURSIVE NatText(_)
NatText(n) ==
    IF n < 10 THEN <<Digits[n + 1]>>
    ELSE NatText(n \div 10) \o <<Digits[(n % 10) + 1]>>

\* int(text) for a text of digits
RECURSIVE NatValue(_)
NatValue(t) ==
    IF t = <<>> THEN 0
    ELSE 10 * NatValue(SubSeq(t, 1, Len(t) - 1)) + DigitValue(t[Len(t)])

\* the decimals of m millionths, to the last one that is not 0 (one at least)
Decimals(m) ==
    LET all  == [p \in 1..6 |-> Digits[((m \div Pow10(6 - p)) % 10) + 1]]
        used == {p \in 1..6 : all[p] # "0"}
        last == IF used = {} THEN 1 ELSE CHOOSE p \in used : \A q \in used : q <= p
    IN SubSeq(all, 1, last)

\* repr of the float v/64, as to_csv writes it.  The numbers of this module
\* are the multiples of 1/64 from 0 on: each is a double, and its repr has
\* six decimals at most.  A double with a repr of 16 or 17 digits (the mean
\* of 0.1 and 0.2 is 0.15000000000000002) is not among them
float_repr(v) == NatText(v \div 64) \o <<".">> \o Decimals((v % 64) * 15625)

\* the place of the decimal point in a text, Len + 1 when it has none
DotOf(t) ==
    IF \E k \in 1..Len(t) : t[k] = "."
    THEN CHOOSE k \in 1..Len(t) : t[k] = "." /\ \A j \in 1..(k - 1) : t[j] # "."
    ELSE Len(t) + 1

\* the text is a number: digits, with at most one decimal point among them
IsNumberText(t) ==
    /\ \E k \in 1..Len(t) : IsDigit(t[k])
    /\ \A k \in 1..Len(t) : IsDigit(t[k]) \/ k = DotOf(t)

\* the float a text denotes, in units of 1/64, cut to a multiple of 1/64:
\* exact for the texts float_repr writes.  Whether read_csv's default
\* converter reads the repr of any double back to that double is not
\* modelled
ParseNumber(t) ==
    LET dot  == DotOf(t)
        frac == SubSeq(t, dot + 1, Len(t))
    IN NatValue(SubSeq(t, 1, dot - 1)) * 64
           + (NatValue(frac) * 64) \div Pow10(Len(frac))

\* a date text: YYYY-MM-DD or YYYY/MM/DD
IsDateText(t) ==
    /\ Len(t) = 10
    /\ t[5] \in {"-", "/"} /\ t[8] = t[5]
    /\ \A k \in {1, 2, 3, 4, 6, 7, 9, 10} : IsDigit(t[k])

\* a cell of a column of strings (dtype object), and a date-time cell
StrCell(t) == [dtype |-> "object", text |-> t, date |-> <<>>]

DateCell(d) == [dtype |-> "datetime64", text |-> <<>>, date |-> d]

\* the missing cell of a column of strings
NoneCell == [dtype |-> "missing", text |-> <<>>, date |-> <<>>]

\* pd.to_datetime of one string: <<year, month, day>>
to_datetime(cell) ==
    DateCell(<<NatValue(SubSeq(cell.text, 1, 4)), NatValue(SubSeq(cell.text, 6, 7)),
               NatValue(SubSeq(cell.text, 9, 10))>>)

Pad2(n) == IF n < 10 THEN <<"0">> \o NatText(n) ELSE NatText(n)

\* a date-time as to_csv writes it (a time of day of 00:00:00 is left out)
DateText(d) == NatText(d[1]) \o <<"-">> \o Pad2(d[2]) \o <<"-">> \o Pad2(d[3])

TrueText == <<"T", "r", "u", "e">>

FalseText == <<"F", "a", "l", "s", "e">>

\* the columns a table of the model can hold: a row has a cell for each,
\* and the cell of a column that the table lacks is NaN (False for
\* Outliers_Flag)
Fields == {"Timestamp", "GHI", "WS", "Tamb", "Outliers_Flag"}

\* one entry of df.dtypes
Column(name, dtype) == [name |-> name, dtype |-> dtype]

\* list(df.columns)
Names(dts) == [k \in 1..Len(dts) |-> dts[k].name]

\* the text of one cell of a column of the given dtype
FormatCell(dtype, v) ==
    IF dtype = "bool" THEN (IF v THEN TrueText ELSE FalseText)
    ELSE IF dtype \in {"object", "datetime64[ns]"}
         THEN (IF v.dtype = "datetime64" THEN DateText(v.date) ELSE v.text)
    ELSE IF v = NaN THEN <<>>
    ELSE IF dtype = "int64" THEN NatText(v \div 64)
    ELSE float_repr(v)

\* a file: absent, not a CSV that read_csv can read, or a header and lines
AbsentFile == [kind |-> "absent", header |-> <<>>, lines |-> <<>>]

GarbageFile == [kind |-> "garbage", header |-> <<>>, lines |-> <<>>]

CsvFile(header, lines) == [kind |-> "csv", header |-> header, lines |-> lines]

\* df.to_csv(path, index=False): the header, then one line for every row
to_csv(d, dts) ==
    CsvFile(Names(dts),
            [i \in Rows(d) |->
                [k \in 1..Len(dts) |-> FormatCell(dts[k].dtype, d[i][dts[k].name])]])

IndexOf(header, c) == CHOOSE k \in 1..Len(header) : header[k] = c

\* the text is a whole number: digits alone
IsIntegerText(t) == t # <<>> /\ \A k \in 1..Len(t) : IsDigit(t[k])

\* the dtype read_csv infers for column k: object for a column without
\* rows, int64, float64, bool, or object
InferKind(lines, k) ==
    IF Len(lines) = 0 THEN "object"
    ELSE IF \A i \in 1..Len(lines) : IsIntegerText(lines[i][k]) THEN "int64"
    ELSE IF \A i \in 1..Len(lines) : lines[i][k] = <<>> \/ IsNumberText(lines[i][k])
    THEN "float64"
    ELSE IF \A i \in 1..Len(lines) : lines[i][k] \in {TrueText, FalseText}
    THEN "bool"
    ELSE "object"

ParseField(kind, t) ==
    IF kind = "bool" THEN t = TrueText
    ELSE IF kind \in {"int64", "float64"} THEN (IF t = <<>> THEN NaN ELSE ParseNumber(t))
    ELSE IF t = <<>> THEN NoneCell
    ELSE StrCell(t)

\* pd.read_csv(path): error is "" and the table is read, or error names the
\* exception.  A column the file does not have holds no cell (NaN; False
\* for Outliers_Flag), as in Project
read_csv(file) ==
    IF file.kind = "absent"
    THEN [error |-> "FileNotFoundError", columns |-> {}, dtypes |-> <<>>, rows |-> <<>>]
    ELSE IF file.kind = "garbage"
    THEN [error |-> "Exception", columns |-> {}, dtypes |-> <<>>, rows |-> <<>>]
    ELSE [error |-> "", columns |-> Range(file.header),
          dtypes |-> [k \in 1..Len(file.header) |->
                         Column(file.header[k], InferKind(file.lines, k))],
          rows |-> [i \in 1..Len(file.lines) |->
                      [c \in Fields |->
                          IF c \in Range(file.header)
                          THEN LET k == IndexOf(file.header, c)
                               IN ParseField(InferKind(file.lines, k), file.lines[i][k])
                          ELSE IF c = FlagColumn THEN FALSE ELSE NaN]]]

\* every Timestamp cell of the table is a string that is a date
DatesParse(rows) ==
    \A i \in 1..Len(rows) :
        rows[i].Timestamp.dtype = "object" => IsDateText(rows[i].Timestamp.text)

\* df['Timestamp'] = pd.to_datetime(df['Timestamp'])
ConvertTimestamp(rows) ==
    [i \in 1..Len(rows) |->
        [rows[i] EXCEPT !.Timestamp = IF @.dtype = "object" THEN to_datetime(@) ELSE @]]

\* df.dtypes after that conversion
ConvertedDtypes(dts) ==
    [k \in 1..Len(dts) |->
        IF dts[k].name = "Timestamp" THEN Column("Timestamp", "datetime64[ns]") ELSE dts[k]]

\* df.dtypes after df['Outliers_Flag'] = flags: a new column comes last
FlaggedDtypes(dts) ==
    IF \E k \in 1..Len(dts) : dts[k].name = FlagColumn
    THEN [k \in 1..Len(dts) |->
             IF dts[k].name = FlagColumn THEN Column(FlagColumn, "bool") ELSE dts[k]]
    ELSE Append(dts, Column(FlagColumn, "bool"))

\* df.dtypes after the assignments of clean_and_impute have left the rows
\* d: an int64 column that was given a median which is not a whole number,
\* or NaN, has become float64
AssignedDtypes(dts, d) ==
    [k \in 1..Len(dts) |->
        IF /\ dts[k].dtype = "int64"
           /\ \E i \in Rows(d) : d[i][dts[k].name] = NaN \/ d[i][dts[k].name] % 64 # 0
        THEN Column(dts[k].name, "float64")
        ELSE dts[k]]

----------------------------------------------------------------------------
(* The file system *)

\* the directories of the model and the directory each lies in ("" is the
\* current directory)
DirNames == {"data", "out", "ro", "ro/new"}

ParentOf(dir) == IF dir = "ro/new" THEN "ro" ELSE ""

InputPath == Path("data", "raw.csv")

OutputPaths ==
    {Path("", "clean.csv"), Path("data", "clean.csv"), Path("out", "clean.csv"),
     Path("ro", "clean.csv"), Path("ro/new", "clean.csv")}

AllPaths == {InputPath} \cup OutputPaths

\* os.path.exists(dir): False for the empty string
exists(f, dir) == dir \in f.dirs

\* os.makedirs(dir): "" when the directory was made, or the exception
makedirs_error(f, dir) ==
    IF dir = "" THEN "FileNotFoundError"
    ELSE IF ParentOf(dir) \in f.readonly THEN "PermissionError"
    ELSE ""

makedirs(f, dir) == [f EXCEPT !.dirs = @ \cup {dir}]

\* open(path, "w"): "" when the file can be written, or the exception
open_error(f, path) ==
    IF path.dir # "" /\ path.dir \notin f.dirs THEN "FileNotFoundError"
    ELSE IF path.dir \in f.readonly THEN "PermissionError"
    ELSE ""

write(f, path, file) == [f EXCEPT !.files[path] = file]

----------------------------------------------------------------------------
(* Loading and saving *)

\* what a loader leaves: the value it returns ("df" or "None") and the table
\* it has bound (held is FALSE when it bound none)
Loaded(value, held, dts, rows) ==
    [value |-> value, held |-> held, columns |-> Range(Names(dts)), dtypes |-> dts,
     rows |-> rows]

NotLoaded == Loaded("None", FALSE, <<>>, <<>>)

\* FileLoadingHandler.load_data: self.df is bound as soon as read_csv
\* returns; a Timestamp that to_datetime cannot convert raises after that
FL_load(file) ==
    LET r == read_csv(file)
    IN IF r.error # "" THEN NotLoaded
       ELSE IF "Timestamp" \notin r.columns THEN Loaded("df", TRUE, r.dtypes, r.rows)
       ELSE IF DatesParse(r.rows)
            THEN Loaded("df", TRUE, ConvertedDtypes(r.dtypes), ConvertTimestamp(r.rows))
       ELSE Loaded("None", TRUE, r.dtypes, r.rows)

\* eda_plots.load_cleaned_data: the table is a local until it is returned
LC_load(file) ==
    LET r == read_csv(file)
    IN IF r.error # "" THEN NotLoaded
       ELSE IF "Timestamp" \notin r.columns THEN Loaded("df", TRUE, r.dtypes, r.rows)
       ELSE IF DatesParse(r.rows)
            THEN Loaded("df", TRUE, ConvertedDtypes(r.dtypes), ConvertTimestamp(r.rows))
       ELSE NotLoaded

\* data_preparation.load_data: read_csv(file_path, parse_dates=['Timestamp'])
\* raises ValueError for a file without that column, and leaves a column it
\* cannot convert as strings
DP_load(file) ==
    LET r == read_csv(file)
    IN IF r.error # "" THEN NotLoaded
       ELSE IF "Timestamp" \notin r.columns THEN NotLoaded
       ELSE IF DatesParse(r.rows)
            THEN Loaded("df", TRUE, ConvertedDtypes(r.dtypes), ConvertTimestamp(r.rows))
       ELSE Loaded("df", TRUE, r.dtypes, r.rows)

\* df.drop(columns=['Outliers_Flag']) when the table has that column
drop_flag(dts) == SelectSeq(dts, LAMBDA c : c.name # FlagColumn)

\* save_cleaned_data(output_path) from os.path.dirname on: the file system
\* it leaves and how the call ends.  os.makedirs is outside the try, so its
\* exception reaches the caller; whatever the try raises is printed and the
\* call returns None.  held is FALSE for the module-level function called
\* with None, whose df.columns raises inside the try
Saved(f, value) == [fs |-> f, value |-> value]

save(f, held, d, dts, output_path) ==
    LET output_dir == output_path.dir
        made == ~exists(f, output_dir)
        f1 == IF made THEN makedirs(f, output_dir) ELSE f
    IN IF made /\ makedirs_error(f, output_dir) # "" THEN Saved(f, "raised")
       ELSE IF ~held \/ open_error(f1, output_path) # "" THEN Saved(f1, "None")
       ELSE Saved(write(f1, output_path, to_csv(d, drop_flag(dts))), "None")

\* the caller binds what a loader left
Bind(l) ==
    /\ df_is_None' = ~l.held
    /\ df' = l.rows
    /\ columns' = l.columns
    /\ dtypes' = l.dtypes
    /\ fresh' = FALSE
    /\ passes' = 0

\* FileLoadingHandler.load_data()
FileLoadingHandler_load_data ==
    /\ caller = "DatasetHandler"
    /\ LET l == FL_load(fs.files[file_path])
       IN /\ IF l.held THEN Bind(l)
             ELSE UNCHANGED <<df_is_None, df, columns, dtypes, fresh, passes>>
          /\ ret' = Outcome("FileLoadingHandler.load_data", l.value, file_path)
    /\ UNCHANGED <<impute_columns, cleans, caller, file_path, fs, compare_vars, dash_vars>>

\* df = data_preparation.load_data(file_path)
load_data ==
    /\ caller = "data_preparation"
    /\ LET l == DP_load(fs.files[file_path])
       IN /\ Bind(l)
          /\ ret' = Outcome("load_data", l.value, file_path)
    /\ UNCHANGED <<impute_columns, cleans, caller, file_path, fs, compare_vars, dash_vars>>

\* df = eda_plots.load_cleaned_data(file_path)
load_cleaned_data ==
    /\ caller = "data_preparation"
    /\ LET l == LC_load(fs.files[file_path])
       IN /\ Bind(l)
          /\ ret' = Outcome("load_cleaned_data", l.value, file_path)
    /\ UNCHANGED <<impute_columns, cleans, caller, file_path, fs, compare_vars, dash_vars>>

\* df = data_preparation.calculate_zscore_and_flag_outliers(df): df.columns
\* raises AttributeError when df is None
data_preparation_calculate_zscore_and_flag_outliers ==
    /\ caller = "data_preparation"
    /\ IF df_is_None
       THEN /\ ret' = Outcome("calculate_zscore_and_flag_outliers", "raised", NoPath)
            /\ UNCHANGED <<pipeline_vars, dtypes>>
       ELSE /\ calculate_zscore_and_flag_outliers
            /\ dtypes' = FlaggedDtypes(dtypes)
            /\ ret' = Outcome("calculate_zscore_and_flag_outliers", "df", NoPath)
    /\ UNCHANGED <<df_is_None, caller, file_path, fs, compare_vars, dash_vars>>

\* df = data_preparation.clean_and_impute(df, impute_columns): df.columns
\* raises AttributeError when df is None
data_preparation_clean_and_impute ==
    /\ caller = "data_preparation"
    /\ IF df_is_None
       THEN /\ ret' = Outcome("clean_and_impute", "raised", NoPath)
            /\ UNCHANGED <<pipeline_vars, dtypes>>
       ELSE /\ clean_and_impute
            /\ dtypes' = AssignedDtypes(dtypes, df')
            /\ ret' = Outcome("clean_and_impute", "df", NoPath)
    /\ UNCHANGED <<df_is_None, caller, file_path, fs, compare_vars, dash_vars>>

\* DatasetHandler.get_summary_report(): prints, or reports that no data is
\* loaded; returns None either way
DatasetHandler_get_summary_report ==
    /\ caller = "DatasetHandler"
    /\ ret' = Outcome("get_summary_report", "None", NoPath)
    /\ UNCHANGED <<pipeline_vars, df_is_None, dtypes, caller, file_path, fs, compare_vars,
                   dash_vars>>

\* DatasetHandler.calculate_zscore_and_flag_outliers(), from its first line
DatasetHandler_calculate_zscore_and_flag_outliers ==
    /\ caller = "DatasetHandler"
    /\ IF df_is_None
       THEN /\ ret' = Outcome("calculate_zscore_and_flag_outliers", "None", NoPath)
            /\ UNCHANGED <<pipeline_vars, dtypes>>
       ELSE /\ DH_calculate_zscore_and_flag_outliers
            /\ dtypes' = FlaggedDtypes(dtypes)
            /\ ret' = Outcome("calculate_zscore_and_flag_outliers", "df", NoPath)
    /\ UNCHANGED <<df_is_None, caller, file_path, fs, compare_vars, dash_vars>>

\* DatasetHandler.clean_and_impute(impute_columns), from its first line
DatasetHandler_clean_and_impute ==
    /\ caller = "DatasetHandler"
    /\ IF df_is_None
       THEN /\ ret' = Outcome("clean_and_impute", "None", NoPath)
            /\ UNCHANGED <<pipeline_vars, dtypes>>
       ELSE /\ DH_clean_and_impute
            /\ dtypes' = AssignedDtypes(dtypes, df')
            /\ ret' = Outcome("clean_and_impute", "df", NoPath)
    /\ UNCHANGED <<df_is_None, caller, file_path, fs, compare_vars, dash_vars>>

\* mutant: no "df is None" check, the directory is made before df is used
\* (as in the module-level function)
DatasetHandler_save_unguarded ==
    \E output_path \in OutputPaths :
        LET s == save(fs, ~df_is_None, df, dtypes, output_path)
        IN /\ caller = "DatasetHandler"
           /\ ret' = Outcome("DatasetHandler.save_cleaned_data", s.value, output_path)
           /\ fs' = s.fs
           /\ UNCHANGED <<pipeline_vars, df_is_None, dtypes, caller, file_path, compare_vars,
                        dash_vars>>

\* DatasetHandler.save_cleaned_data(output_path)
DatasetHandler_save_cleaned_data ==
    \E output_path \in OutputPaths :
        /\ caller = "DatasetHandler"
        /\ IF df_is_None
           THEN /\ ret' = Outcome("DatasetHandler.save_cleaned_data", "None", output_path)
                /\ fs' = fs
           ELSE LET s == save(fs, TRUE, df, dtypes, output_path)
                IN /\ ret' = Outcome("DatasetHandler.save_cleaned_data", s.value, output_path)
                   /\ fs' = s.fs
        /\ UNCHANGED <<pipeline_vars, df_is_None, dtypes, caller, file_path, compare_vars,
                        dash_vars>>

\* data_preparation.save_cleaned_data(df, output_path)
save_cleaned_data ==
    \E output_path \in OutputPaths :
        LET s == save(fs, ~df_is_None, df, dtypes, output_path)
        IN /\ caller = "data_preparation"
           /\ ret' = Outcome("save_cleaned_data", s.value, output_path)
           /\ fs' = s.fs
           /\ UNCHANGED <<pipeline_vars, df_is_None, dtypes, caller, file_path, compare_vars,
                        dash_vars>>

\* the files a caller may find at the input path.  Dates are written in one
\* style throughout a file
Chars2021_08_09 == <<"2", "0", "2", "1", "-", "0", "8", "-", "0", "9">>

Chars2021_08_10 == <<"2", "0", "2", "1", "-", "0", "8", "-", "1", "0">>

Chars2021s08s10 == <<"2", "0", "2", "1", "/", "0", "8", "/", "1", "0">>

InputFiles ==
    { AbsentFile, GarbageFile,
      CsvFile(<<"GHI">>, <<>>),
      CsvFile(<<"GHI", "WS">>,
              << << <<"0", ".", "5">>, <<"1">> >>, << <<"4">>, <<>> >> >>),
      CsvFile(<<"Timestamp", "GHI", "Tamb">>,
              << <<Chars2021_08_09, <<"1", ".", "0">>, <<"4">> >>,
                 <<Chars2021_08_10, <<>>, <<"0", ".", "2", "5">> >>,
                 <<Chars2021_08_10, <<"0", ".", "5">>, <<>> >> >>),
      CsvFile(<<"GHI", "Timestamp">>,
              << << <<"4">>, Chars2021s08s10 >> >>),
      CsvFile(<<"Timestamp", "GHI">>,
              << << <<"s", "o", "o", "n">>, <<"1", ".", "0">> >>,
                 << Chars2021_08_09, <<>> >> >>),
      CsvFile(<<"GHI", "Outliers_Flag", "Timestamp">>,
              << << <<"1">>, TrueText, <<>> >>,
                 << <<"4">>, FalseText, Chars2021_08_09 >>,
                 << <<"1">>, FalseText, Chars2021_08_10 >> >>) }

InitIO ==
    /\ df_is_None = TRUE
    /\ df = <<>>
    /\ columns = {}
    /\ dtypes = <<>>
    /\ impute_columns \in ImputeChoices
    /\ fresh = FALSE
    /\ cleans = 0
    /\ passes = 0
    /\ caller \in {"DatasetHandler", "data_preparation"}
    /\ file_path \in {InputPath, Path("data", "clean.csv")}
    /\ \E file \in InputFiles :
         fs = [dirs |-> {"data", "ro"}, readonly |-> {"ro"},
               files |-> [p \in AllPaths |-> IF p = InputPath THEN file ELSE AbsentFile]]
    /\ ret = NoCall
    /\ CompareIdle
    /\ DashIdle

NextIO ==
    \/ FileLoadingHandler_load_data
    \/ load_data
    \/ load_cleaned_data
    \/ data_preparation_calculate_zscore_and_flag_outliers
    \/ data_preparation_clean_and_impute
    \/ DatasetHandler_get_summary_report
    \/ DatasetHandler_calculate_zscore_and_flag_outliers
    \/ DatasetHandler_clean_and_impute
    \/ DatasetHandler_save_cleaned_data
    \/ save_cleaned_data

SpecIO == InitIO /\ [][NextIO]_vars

----------------------------------------------------------------------------
(* What the specification says of loading and saving *)

SaveOps == {"DatasetHandler.save_cleaned_data", "save_cleaned_data"}

\* the last call was a save of a table, and the file it names is there.
\* (Only a save writes at an output path, and a save that fails at a path
\* fails there every time, so the file is the one this save wrote.)
SaveSucceeded ==
    /\ ret.op \in SaveOps
    /\ ~df_is_None
    /\ fs.files[ret.path].kind = "csv"

\* C11 (as claimed): after a successful save, loading the written file again
\* returns a table; it has no Outliers_Flag, its other columns are those of
\* the table in memory, in the same order, and its cells equal the cells in
\* memory, row for row.  (load_cleaned_data returns what
\* FileLoadingHandler.load_data returns.)
C11_SaveRoundTrip ==
    SaveSucceeded =>
        LET l == FL_load(fs.files[ret.path])
        IN /\ l.value = "df"
           /\ FlagColumn \notin l.columns
           /\ l.columns = columns \ {FlagColumn}
           /\ Names(l.dtypes) = Names(drop_flag(dtypes))
           /\ Len(l.rows) = Len(df)
           /\ \A i \in Rows(df) : \A c \in l.columns : l.rows[i][c] = df[i][c]

\* C12 (as claimed): a save that does not write its file ends otherwise than
\* a save that does (which returns None): the failure reaches the caller.
C12_WriteFailureSurfaced ==
    (ret.op \in SaveOps /\ ~df_is_None /\ fs.files[ret.path].kind = "absent")
        => ret.value # "None"

LoadOps == {"FileLoadingHandler.load_data", "load_data", "load_cleaned_data"}

\* the file the last call was given, as it is now (no call other than a
\* save writes a file, so it is as the last load found it)
GivenFile == fs.files[ret.path]

\* C14 (as claimed): every loader returns the table of a CSV file that has
\* no Timestamp column, and returns the table of a file whose Timestamp
\* fields are all dates (or empty) with that column converted to date-time.
C14_TimestampOptional ==
    (ret.op \in LoadOps /\ GivenFile.kind = "csv") =>
        /\ "Timestamp" \notin Range(GivenFile.header) =>
               ret.value = "df" /\ ~df_is_None /\ columns = Range(GivenFile.header)
        /\ ("Timestamp" \in Range(GivenFile.header) /\ DatesParse(read_csv(GivenFile).rows)) =>
               /\ ret.value = "df" /\ ~df_is_None
               /\ \E k \in 1..Len(dtypes) : dtypes[k] = Column("Timestamp", "datetime64[ns]")
               /\ \A i \in Rows(df) : df[i].Timestamp.dtype # "object"

\* C15 (as claimed): when FileLoadingHandler.load_data returns None the
\* handler holds no table.
C15_FailedLoadHoldsNoTable ==
    (ret.op = "FileLoadingHandler.load_data" /\ ret.value = "None") => df_is_None

NoDataOps ==
    {"get_summary_report", "calculate_zscore_and_flag_outliers",
     "clean_and_impute", "DatasetHandler.save_cleaned_data"}

\* C19: on a DatasetHandler that holds no table, each of get_summary_report,
\* calculate_zscore_and_flag_outliers, clean_and_impute and save_cleaned_data
\* returns None, leaves the handler without a table, and leaves the file
\* system (files and directories) as it was.
C19_NoDataNoEffect ==
    [][(caller = "DatasetHandler" /\ df_is_None /\ ret'.op \in NoDataOps) =>
          /\ ret'.value = "None"
          /\ df_is_None'
          /\ fs' = fs
          /\ dtypes' = dtypes
          /\ pipeline_vars' = pipeline_vars]_vars

\* witness of C19: save_cleaned_data was called on a handler without a table
\* with a path in a directory that does not exist; it still does not
C19_Witness ==
    /\ caller = "DatasetHandler"
    /\ df_is_None
    /\ ret.op = "DatasetHandler.save_cleaned_data"
    /\ ret.path.dir = "out"
    /\ ~exists(fs, "out")

----------------------------------------------------------------------------
(* ComparisonHandler *)

METRICS == <<"GHI", "DNI", "DHI">>

CombinedFields == Fields \cup {"Country"}

\* a table as a value: its columns and its rows
Table(cols, rows) == [is_None |-> FALSE, columns |-> cols, rows |-> rows]

\* DataFrame.empty
empty(t) == t.columns = {} \/ Len(t.rows) = 0

\* df['Country'] = country
WithCountry(r, country) ==
    Table(r.columns \cup {"Country"},
          [i \in 1..Len(r.rows) |->
              [c \in CombinedFields |-> IF c = "Country" THEN country ELSE r.rows[i][c]]])

\* mutant: "break" where the loop goes on: nothing is loaded after a failure
RECURSIVE all_data_until_error(_, _, _)
all_data_until_error(paths, f, k) ==
    IF k = 0 THEN <<>>
    ELSE LET r == read_csv(f.files[paths[k].path])
         IN IF \E j \in 1..k : read_csv(f.files[paths[j].path]).error # ""
            THEN all_data_until_error(paths, f, k - 1)
            ELSE Append(all_data_until_error(paths, f, k - 1),
                        WithCountry(r, paths[k].country))

\* all_data after the first k entries of FILE_PATHS: the tables of the
\* files that read_csv could read, in order; an exception skips the entry
RECURSIVE all_data(_, _, _)
all_data(paths, f, k) ==
    IF k = 0 THEN <<>>
    ELSE LET r == read_csv(f.files[paths[k].path])
         IN IF r.error # "" THEN all_data(paths, f, k - 1)
            ELSE Append(all_data(paths, f, k - 1), WithCountry(r, paths[k].country))

\* the rows of the first k tables, one table after the other
RECURSIVE RowsUpTo(_, _)
RowsUpTo(frames, k) ==
    IF k = 0 THEN <<>> ELSE RowsUpTo(frames, k - 1) \o frames[k].rows

\* mutant: the tables are stacked last first
concat_reversed(frames) ==
    RowsUpTo([k \in 1..Len(frames) |-> frames[Len(frames) + 1 - k]], Len(frames))

\* the rows of pd.concat(frames, ignore_index=True): a column that a table
\* lacks holds NaN in its rows
concat_rows(frames) == RowsUpTo(frames, Len(frames))

\* pd.concat(all_data, ignore_index=True), for a list that is not empty
concat(frames) ==
    Table(UNION {frames[k].columns : k \in 1..Len(frames)}, concat_rows(frames))

\* load_and_combine_data: the value returned, or "raised" (pd.concat raises
\* ValueError for an empty list), and df_combined afterwards
load_and_combine(paths, f, before) ==
    LET frames == all_data(paths, f, Len(paths))
    IN IF frames = <<>> THEN [value |-> "raised", df_combined |-> before]
       ELSE [value |-> IF empty(concat(frames)) THEN "False" ELSE "True",
             df_combined |-> concat(frames)]

\* the countries that groupby("Country") finds, and for each the GHI values
\* that dropna() leaves; groups without a value are removed
groups(t) ==
    {c \in {t.rows[i].Country : i \in 1..Len(t.rows)} :
        \E i \in 1..Len(t.rows) : t.rows[i].Country = c /\ t.rows[i].GHI # NaN}

\* mutant: one group is taken for enough
one_group_enough(g) == Cardinality(g) < 1

\* len(groups) < 2
too_few(g) == Cardinality(g) < 2

\* the library calls each step makes on a combined table
boxplots(t) ==
    IF t.is_None \/ empty(t) THEN {}
    ELSE IF \A k \in 1..Len(METRICS) : METRICS[k] \notin t.columns THEN {}
    ELSE {"sns.boxplot"}

summary_table(t) ==
    IF t.is_None \/ empty(t) THEN {}
    ELSE IF \A k \in 1..Len(METRICS) : METRICS[k] \notin t.columns THEN {}
    ELSE {"groupby.agg"}

statistical_tests(t) ==
    IF t.is_None \/ empty(t) THEN {}
    ELSE IF "GHI" \notin t.columns THEN {}
    ELSE IF too_few(groups(t)) THEN {}
    ELSE {"stats.f_oneway", "stats.kruskal"}

bar_chart(t) ==
    IF t.is_None \/ empty(t) THEN {}
    ELSE IF "GHI" \notin t.columns THEN {}
    ELSE {"sns.barplot"}

\* how run_statistical_tests ends.  The two tests are called outside any
\* try: stats.kruskal raises ValueError when all the values it is given are
\* identical in the library versions that do not return nan for them, and
\* the exception leaves the method
test_outcomes(t) ==
    IF statistical_tests(t) # {}
          /\ Cardinality({t.rows[i].GHI : i \in {j \in 1..Len(t.rows) : t.rows[j].GHI # NaN}}) = 1
    THEN {"None", "raised"}
    ELSE {"None"}

\* ComparisonHandler.load_and_combine_data()
load_and_combine_data ==
    LET l == load_and_combine(FILE_PATHS, fs, df_combined)
    IN /\ df_combined' = l.df_combined
       /\ ret' = Outcome("load_and_combine_data", l.value, NoPath)
       /\ performed' = {}
       /\ UNCHANGED <<pipeline_vars, df_is_None, dtypes, caller, file_path, fs, FILE_PATHS, dash_vars>>

\* ComparisonHandler.generate_boxplots()
generate_boxplots ==
    /\ performed' = boxplots(df_combined)
    /\ ret' = Outcome("generate_boxplots", "None", NoPath)
    /\ UNCHANGED <<pipeline_vars, df_is_None, dtypes, caller, file_path, fs, FILE_PATHS,
                   df_combined, dash_vars>>

\* ComparisonHandler.generate_summary_table(): returns the table it made
generate_summary_table ==
    /\ performed' = summary_table(df_combined)
    /\ ret' = Outcome("generate_summary_table",
                      IF summary_table(df_combined) = {} THEN "None" ELSE "df", NoPath)
    /\ UNCHANGED <<pipeline_vars, df_is_None, dtypes, caller, file_path, fs, FILE_PATHS,
                   df_combined, dash_vars>>

\* ComparisonHandler.run_statistical_tests()
run_statistical_tests ==
    /\ performed' = statistical_tests(df_combined)
    /\ \E out \in test_outcomes(df_combined) :
          ret' = Outcome("run_statistical_tests", out, NoPath)
    /\ UNCHANGED <<pipeline_vars, df_is_None, dtypes, caller, file_path, fs, FILE_PATHS,
                   df_combined, dash_vars>>

\* ComparisonHandler.plot_average_ghi_bar_chart()
plot_average_ghi_bar_chart ==
    /\ performed' = bar_chart(df_combined)
    /\ ret' = Outcome("plot_average_ghi_bar_chart", "None", NoPath)
    /\ UNCHANGED <<pipeline_vars, df_is_None, dtypes, caller, file_path, fs, FILE_PATHS,
                   df_combined, dash_vars>>

\* ComparisonHandler.run_comparison(): the four steps follow a load that
\* returned True; an exception of the load or of the tests ends the call,
\* and after one of the tests the bar chart is not drawn
run_comparison ==
    LET l == load_and_combine(FILE_PATHS, fs, df_combined)
        t == l.df_combined
    IN /\ df_combined' = t
       /\ IF l.value = "raised"
          THEN /\ ret' = Outcome("run_comparison", "raised", NoPath)
               /\ performed' = {}
          ELSE IF l.value = "False"
          THEN /\ ret' = Outcome("run_comparison", "None", NoPath)
               /\ performed' = {}
          ELSE \E out \in test_outcomes(t) :
                 /\ ret' = Outcome("run_comparison", out, NoPath)
                 /\ performed' = boxplots(t) \cup summary_table(t) \cup statistical_tests(t)
                                     \cup (IF out = "raised" THEN {} ELSE bar_chart(t))
       /\ UNCHANGED <<pipeline_vars, df_is_None, dtypes, caller, file_path, fs, FILE_PATHS, dash_vars>>

\* the keys of FILE_PATHS, and what a caller may find at a country's path
CountryNames == <<"Benin", "Sierra Leone", "Togo", "Ghana", "Mali">>

CountryFiles ==
    { AbsentFile, GarbageFile,
      CsvFile(<<"GHI">>, <<>>),
      CsvFile(<<"GHI", "WS">>,
              << << <<"0", ".", "5">>, <<"1">> >>, << <<"4">>, <<>> >> >>),
      CsvFile(<<"WS", "GHI">>, << << <<"1">>, <<>> >> >>),
      CsvFile(<<"WS">>, << << <<"4">> >> >>),
      CsvFile(<<"GHI", "Tamb">>, << << <<"1", ".", "0">>, <<"0", ".", "2", "5">> >> >>) }

InitCompare ==
    /\ \E n \in 1..MaxCountries :
         /\ FILE_PATHS = [k \in 1..n |->
                            [country |-> CountryNames[k], path |-> Path("data", CountryNames[k])]]
         /\ \E files \in [{Path("data", CountryNames[k]) : k \in 1..n} -> CountryFiles] :
              fs = [dirs |-> {"data"}, readonly |-> {}, files |-> files]
    /\ df_combined = NoTable
    /\ performed = {}
    /\ ret = NoCall
    /\ caller = ""
    /\ file_path = NoPath
    /\ df_is_None = TRUE
    /\ dtypes = <<>>
    /\ PipelineIdle
    /\ DashIdle

NextCompare ==
    \/ load_and_combine_data
    \/ generate_boxplots
    \/ generate_summary_table
    \/ run_statistical_tests
    \/ plot_average_ghi_bar_chart
    \/ run_comparison

SpecCompare == InitCompare /\ [][NextCompare]_vars

----------------------------------------------------------------------------
(* What the specification says of ComparisonHandler *)

\* the table of the k-th country's file, and the entries whose file loads
CountryTable(k) == read_csv(fs.files[FILE_PATHS[k].path])

LoadedEntries == {k \in 1..Len(FILE_PATHS) : CountryTable(k).error = ""}

\* the rows of df_combined that carry a country
RowsOf(country) ==
    {i \in 1..Len(df_combined.rows) : df_combined.rows[i].Country = country}

\* every country's rows in df_combined are as many as its file holds, none
\* for a country whose file did not load, and no row is of another country
ExactlyTheLoadedRows ==
    /\ \A k \in 1..Len(FILE_PATHS) :
          Cardinality(RowsOf(FILE_PATHS[k].country)) =
              IF k \in LoadedEntries THEN Len(CountryTable(k).rows) ELSE 0
    /\ \A i \in 1..Len(df_combined.rows) :
          \E k \in LoadedEntries : df_combined.rows[i].Country = FILE_PATHS[k].country

\* C13 (as claimed): whenever at least one country's file loads,
\* load_and_combine_data returns True and df_combined holds exactly the rows
\* of the countries that loaded.
C13_SomeLoadReturnsTrue ==
    (ret.op = "load_and_combine_data" /\ LoadedEntries # {}) =>
        /\ ret.value = "True"
        /\ ~df_combined.is_None
        /\ ExactlyTheLoadedRows

\* C13 (amended): whenever at least one country's file loads, the call does
\* not raise, df_combined holds exactly the rows of the countries that
\* loaded, and the call returns True when these are at least one row and
\* False when every file that loaded holds no row.
C13_SomeLoadCombinesLoaded ==
    (ret.op = "load_and_combine_data" /\ LoadedEntries # {}) =>
        /\ ret.value = IF \E k \in LoadedEntries : Len(CountryTable(k).rows) > 0
                       THEN "True" ELSE "False"
        /\ ~df_combined.is_None
        /\ ExactlyTheLoadedRows

\* witness of C13: the first country's file is missing, a later one cannot
\* be read, and a country after that loaded with its rows
C13_Witness ==
    /\ ret.op = "load_and_combine_data"
    /\ ret.value = "True"
    /\ Len(FILE_PATHS) >= 3
    /\ fs.files[FILE_PATHS[1].path].kind = "absent"
    /\ fs.files[FILE_PATHS[2].path].kind = "garbage"
    /\ RowsOf(FILE_PATHS[3].country) # {}

\* the countries with at least one GHI value in df_combined
CountriesWithGHI ==
    {FILE_PATHS[k].country : k \in
        {h \in 1..Len(FILE_PATHS) :
            \E i \in RowsOf(FILE_PATHS[h].country) : df_combined.rows[i].GHI # NaN}}

Tests == {"stats.f_oneway", "stats.kruskal"}

\* df_combined is unset or empty, has no GHI column, or fewer than two
\* countries have a GHI value in it
NothingToTest ==
    \/ df_combined.is_None
    \/ empty(df_combined)
    \/ "GHI" \notin df_combined.columns
    \/ Cardinality(CountriesWithGHI) < 2

\* C16: run_statistical_tests (called directly or by run_comparison) calls
\* the ANOVA or the Kruskal-Wallis test only when at least two countries
\* have a GHI value: with df_combined unset or empty, without a GHI column
\* or with fewer than two such countries it calls neither, and returns
\* without raising.
C16_TestsNeedTwoGroups ==
    (ret.op \in {"run_statistical_tests", "run_comparison"}) =>
        /\ (ret.op = "run_statistical_tests" /\ NothingToTest) =>
              ret.value = "None" /\ performed \cap Tests = {}
        /\ performed \cap Tests # {} =>
              /\ ~df_combined.is_None
              /\ Len(df_combined.rows) > 0
              /\ "GHI" \in df_combined.columns
              /\ Cardinality(CountriesWithGHI) >= 2

\* witness of C16: df_combined holds rows of two countries and a GHI
\* column, one country alone has a GHI value, and no test was called
C16_Witness ==
    /\ ret.op = "run_statistical_tests"
    /\ ret.value = "None"
    /\ performed = {}
    /\ "GHI" \in df_combined.columns
    /\ Cardinality({df_combined.rows[i].Country : i \in 1..Len(df_combined.rows)}) >= 2
    /\ Cardinality(CountriesWithGHI) = 1

\* the number of rows of the files that loaded among the first k entries
RECURSIVE LoadedRowsUpTo(_)
LoadedRowsUpTo(k) ==
    IF k = 0 THEN 0
    ELSE LoadedRowsUpTo(k - 1)
             + (IF k \in LoadedEntries THEN Len(CountryTable(k).rows) ELSE 0)

\* C17: after load_and_combine_data has returned True, df_combined is the
\* tables that loaded, appended in FILE_PATHS order: its rows are as many as
\* theirs together, and the i-th row of the k-th file is found after the
\* rows of the files before it, with its values and with Country = the key.
C17_PureAppend ==
    (ret.op = "load_and_combine_data" /\ ret.value = "True") =>
        /\ Len(df_combined.rows) = LoadedRowsUpTo(Len(FILE_PATHS))
        /\ \A k \in LoadedEntries : \A i \in 1..Len(CountryTable(k).rows) :
              LET row == df_combined.rows[LoadedRowsUpTo(k - 1) + i]
              IN /\ row.Country = FILE_PATHS[k].country
                 /\ \A c \in Fields : row[c] = CountryTable(k).rows[i][c]

\* witness of C17: two files with different columns and different numbers
\* of rows were appended
C17_Witness ==
    /\ ret.op = "load_and_combine_data"
    /\ ret.value = "True"
    /\ \E k \in LoadedEntries : \E h \in LoadedEntries :
          /\ k < h
          /\ CountryTable(k).columns # CountryTable(h).columns
          /\ Len(CountryTable(k).rows) = 2
          /\ Len(CountryTable(h).rows) = 1

\* C18 (as claimed): when no country's file loads, load_and_combine_data
\* returns False, and run_comparison makes none of the boxplot, summary,
\* test or bar-chart calls and returns.
C18_NoLoadReturnsFalse ==
    (ret.op \in {"load_and_combine_data", "run_comparison"} /\ LoadedEntries = {}) =>
        /\ ret.op = "load_and_combine_data" => ret.value = "False"
        /\ ret.op = "run_comparison" => ret.value = "None" /\ performed = {}

----------------------------------------------------------------------------
(* The dashboard: app/main.py and app/utils.py.  Streamlit runs the script *)
(* from top to bottom after every interaction, so every action below is    *)
(* one interaction followed by one run of the script.  An uploaded file is *)
(* its name and its content; the names of the files uploaded together are  *)
(* taken to differ.                                                        *)

metric_options == <<"GHI", "DNI", "DHI">>

\* load_csv_file(uploaded_file): the table read, an empty one on any error
load_csv_file(uploaded_file) ==
    LET r == read_csv(uploaded_file.content)
    IN IF r.error # "" THEN Table({}, <<>>) ELSE Table(r.columns, r.rows)

\* [f.name for f in uploaded_files]
dataset_names(files) == [i \in 1..Len(files) |-> files[i].name]

\* [load_csv_file(f) for f in uploaded_files if f.name in selected_names]
load_selected(files, selected) ==
    LET chosen(f) == f.name \in Range(selected)
        kept == SelectSeq(files, chosen)
    IN [i \in 1..Len(kept) |-> load_csv_file(kept[i])]

\* zip(df_list, selected_names): pairs up to the shorter of the two
zip(df_list, names) ==
    [i \in 1..(IF Len(df_list) < Len(names) THEN Len(df_list) ELSE Len(names)) |->
        [df |-> df_list[i], name |-> names[i]]]

\* "if not df.empty and metric in df.columns"
plotted(pair, m) == ~empty(pair.df) /\ m \in pair.df.columns

\* temp = df[[metric]].copy(); temp['Dataset'] = name
temp(pair, m) ==
    [i \in 1..Len(pair.df.rows) |-> [value |-> pair.df.rows[i][m], Dataset |-> pair.name]]

\* the rows gathered from the first k pairs
RECURSIVE combined_df(_, _, _)
combined_df(pairs, m, k) ==
    IF k = 0 THEN <<>>
    ELSE combined_df(pairs, m, k - 1)
             \o (IF plotted(pairs[k], m) THEN temp(pairs[k], m) ELSE <<>>)

\* plot_boxplot(df_list, selected_names, metric): the call made and its data
plot_boxplot(df_list, names, m) ==
    LET pairs == zip(df_list, names)
        data  == combined_df(pairs, m, Len(pairs))
    IN IF data = <<>> THEN [call |-> "st.warning", data |-> <<>>]
       ELSE [call |-> "sns.boxplot", data |-> data]

\* the rows of summary made of the first k pairs
RECURSIVE summary(_, _, _)
summary(pairs, m, k) ==
    IF k = 0 THEN <<>>
    ELSE summary(pairs, m, k - 1)
             \o (IF plotted(pairs[k], m)
                 THEN << [Dataset |-> pairs[k].name,
                          Mean    |-> mean(pairs[k].df.rows, m),
                          Median  |-> median(pairs[k].df.rows, m, Rows(pairs[k].df.rows)),
                          Std     |-> std(pairs[k].df.rows, m)] >>
                 ELSE <<>>)

\* a has to come before b when sorted by Mean, descending, NaN last
MeanBefore(a, b) ==
    IF a.Mean.nan THEN FALSE
    ELSE IF b.Mean.nan THEN TRUE
    ELSE a.Mean.sum * b.Mean.n > b.Mean.sum * a.Mean.n

\* sort_values('Mean', ascending=False).reset_index(drop=True): the default
\* sort is not stable, so rows of equal Mean come in either order
sort_values(rows) ==
    {[i \in 1..Len(rows) |-> rows[p[i]]] :
        p \in {q \in [1..Len(rows) -> 1..Len(rows)] :
                  /\ \A i \in 1..Len(rows) : \E j \in 1..Len(rows) : q[j] = i
                  /\ \A i \in 1..Len(rows) : \A j \in 1..Len(rows) :
                        i < j => ~MeanBefore(rows[q[j]], rows[q[i]])}}

\* display_top_regions(df_list, selected_names, metric): the tables
\* st.dataframe may be given; <<>> when nothing is displayed
display_top_regions(df_list, names, m) ==
    LET pairs == zip(df_list, names)
    IN sort_values(summary(pairs, m, Len(pairs)))

\* what one run of the script shows
NothingShown ==
    [df_list |-> <<>>, selected_names |-> <<>>,
     boxplot |-> [call |-> "st.info", data |-> <<>>], top_regions |-> <<>>]

\* the body of main.py from the uploads, the selection and the metric
script(files, selected, m) ==
    IF files = <<>>
    THEN shown' = NothingShown
    ELSE LET dfs == load_selected(files, selected)
         IN \E top \in display_top_regions(dfs, selected, m) :
               shown' = [df_list |-> dfs, selected_names |-> selected,
                         boxplot |-> plot_boxplot(dfs, selected, m),
                         top_regions |-> top]

UploadNames == <<"benin.csv", "togo.csv", "sierraleone.csv", "ghana.csv", "mali.csv">>

UploadContents ==
    { GarbageFile,
      CsvFile(<<"GHI", "WS">>,
              << << <<"0", ".", "5">>, <<"1">> >>, << <<"4">>, <<>> >> >>),
      CsvFile(<<"WS", "GHI">>, << << <<"1">>, <<>> >> >>) }

\* the sequences that hold each of the entries of names at most once
Arrangements(names) ==
    UNION {{q \in [1..n -> Range(names)] :
               \A i \in 1..n : \A j \in 1..n : i # j => q[i] # q[j]} :
           n \in 0..Len(names)}

\* st.sidebar.selectbox("Select Metric", ...): another metric is picked
selectbox ==
    /\ \E m \in Range(metric_options) :
         /\ m # metric
         /\ metric' = m
         /\ script(uploaded_files, selected_names, m)
    /\ UNCHANGED <<uploaded_files, selected_names>>
    /\ UNCHANGED <<pipeline_vars, io_vars, compare_vars>>

\* st.sidebar.file_uploader(...): a file is added or removed; the options
\* of the multiselect change with it, which puts it back to its default
file_uploader ==
    /\ \E files \in
           {Append(uploaded_files, [name |-> n, content |-> c]) :
               n \in {UploadNames[k] : k \in 1..MaxUploads}
                        \ Range(dataset_names(uploaded_files)),
               c \in UploadContents}
           \cup {SelectSeq(uploaded_files, LAMBDA f : f.name # n) :
                    n \in Range(dataset_names(uploaded_files))} :
         /\ uploaded_files' = files
         /\ selected_names' = dataset_names(files)
         /\ script(files, dataset_names(files), metric)
    /\ UNCHANGED metric
    /\ UNCHANGED <<pipeline_vars, io_vars, compare_vars>>

\* st.sidebar.multiselect(...): the selection after the user has removed
\* or added entries, in the order in which they were selected
multiselect ==
    /\ uploaded_files # <<>>
    /\ \E selected \in Arrangements(dataset_names(uploaded_files)) :
         /\ selected # selected_names
         /\ selected_names' = selected
         /\ script(uploaded_files, selected, metric)
    /\ UNCHANGED <<uploaded_files, metric>>
    /\ UNCHANGED <<pipeline_vars, io_vars, compare_vars>>

InitDash ==
    /\ uploaded_files = <<>>
    /\ selected_names = <<>>
    /\ metric = metric_options[1]
    /\ shown = NothingShown
    /\ PipelineIdle
    /\ df_is_None = TRUE
    /\ IOIdle
    /\ CompareIdle

NextDash ==
    \/ selectbox
    \/ file_uploader
    \/ multiselect

SpecDash == InitDash /\ [][NextDash]_vars

----------------------------------------------------------------------------
(* What the specification says of the dashboard *)

\* C20 (as claimed): every table passed to plot_boxplot and
\* display_top_regions is paired with the name of the file it was loaded
\* from: the lists are equally long, and the i-th table is the one loaded
\* from the uploaded file that the i-th entry of selected_names names.
C20_TablesPairedWithNames ==
    uploaded_files # <<>> =>
        /\ Len(shown.df_list) = Len(shown.selected_names)
        /\ \A i \in 1..Len(shown.df_list) :
              \E k \in 1..Len(uploaded_files) :
                 /\ uploaded_files[k].name = shown.selected_names[i]
                 /\ shown.df_list[i] = load_csv_file(uploaded_files[k])

----------------------------------------------------------------------------
(* What the specification says of the cells that cleaning may change, of   *)
(* the destination of a save, and of small tables                          *)

DataColumns == {"GHI", "WS", "Tamb"}

\* C21: clean_and_impute changes only cells of the columns listed in
\* impute_columns that are in a flagged row or missing: a cell that holds a
\* value in a row that is not flagged, every column that is not listed, the
\* Outliers_Flag column, and the number and the order of the rows stay.
C21_CleanChangesOnlyFlaggedOrMissing ==
    [][CleanStep =>
          /\ Len(df') = Len(df)
          /\ columns' = columns
          /\ \A i \in Rows(df) :
                /\ df'[i].Outliers_Flag = df[i].Outliers_Flag
                /\ \A c \in DataColumns :
                      (c \notin Range(impute_columns)
                          \/ (~df[i].Outliers_Flag /\ df[i][c] # NaN))
                        => df'[i][c] = df[i][c]]_vars

\* witness of C21: after flag_outliers and clean_and_impute(["GHI"]) a row
\* is still flagged and keeps its WS of 4.0, the one value of WS that is not
\* 0.0 in at least 11 rows; GHI has no missing cell and more than one value
C21_Witness ==
    /\ cleans = 1
    /\ passes = 1
    /\ impute_columns = <<"GHI">>
    /\ {"GHI", "WS"} \subseteq columns
    /\ Len(df) >= 11
    /\ \E i \in Flagged(df) :
          /\ df[i].WS = 256
          /\ \A j \in Rows(df) \ {i} : df[j].WS = 0
    /\ \A i \in Rows(df) : df[i].GHI # NaN
    /\ \E i \in Rows(df) : \E j \in Rows(df) : df[i].GHI # df[j].GHI

\* the directory of an output path can be used or made: it is the current
\* directory, a directory that can be written to, or a directory that is
\* absent from a parent that can be written to
Usable(f, dir) ==
    \/ dir = ""
    \/ dir \in f.dirs /\ dir \notin f.readonly
    \/ dir \notin f.dirs /\ ParentOf(dir) \notin f.readonly

\* C22 (as claimed): save_cleaned_data, with a table at hand, makes the
\* destination directory when it is absent and writes the file for every
\* valid output path, a bare file name included: it does not raise, the
\* directory exists afterwards and the file is written.
C22_SaveMakesDirectoryAndWrites ==
    [][(ret' # ret /\ ret'.op \in SaveOps /\ ~df_is_None /\ Usable(fs, ret'.path.dir)) =>
          /\ ret'.value = "None"
          /\ ret'.path.dir # "" => exists(fs', ret'.path.dir)
          /\ fs'.files[ret'.path].kind = "csv"]_vars

\* every candidate column present has at most 10 values
AtMost10Values(d) == \A c \in PresentCandidates : Count(d, c) <= 10

\* C23: flag_outliers flags no row of a table in which every candidate
\* column has at most 10 non-missing values, whatever the values are, and
\* clean_and_impute called next replaces no outlier: every cell that holds
\* a value keeps it.
C23_AtMost10ValuesNothingFlagged ==
    [][/\ (FlagStep /\ AtMost10Values(df)) => Flagged(df') = {}
       /\ (fresh /\ AtMost10Values(df) /\ CleanStep) =>
             \A i \in Rows(df) : \A c \in DataColumns :
                 df[i][c] # NaN => df'[i][c] = df[i][c]]_vars

\* witness of C23: flag_outliers and clean_and_impute have run on a table
\* whose GHI has 10 values, nine 0.0 and one 4.0 (2.85 sample standard
\* deviations from the mean); no row is flagged and the 4.0 is still there
C23_Witness ==
    /\ cleans = 1
    /\ passes = 1
    /\ "GHI" \in columns
    /\ AtMost10Values(df)
    /\ Cardinality({i \in Rows(df) : df[i].GHI = 0}) = 9
    /\ Cardinality({i \in Rows(df) : df[i].GHI = 256}) = 1
    /\ FlagColumn \in columns
    /\ Flagged(df) = {}

====
